---------------------------- MODULE Spec2Model ----------------------------
(***************************************************************************)
(* Model of the Transfermarkt squad API (src/src/tm.js): the squad scraper *)
(* getClubSquad, its row extraction rules, and the HTTP facade route       *)
(* GET /api/club/:id/players.                                              *)
(*                                                                         *)
(* Text is a sequence of one-character strings, so that trim, split and    *)
(* the regular expressions of the source are computed, not assumed.  A row *)
(* of markup is given by what each selector of the source finds in it.     *)
(***************************************************************************)
EXTENDS Integers, Sequences, FiniteSets

(***************************************************************************)
(* Text primitives (JavaScript String and RegExp behaviour)                *)
(***************************************************************************)

Digit == {"0", "1", "2", "3", "4", "5", "6", "7", "8", "9"}

DigitChars == <<"0", "1", "2", "3", "4", "5", "6", "7", "8", "9">>

WhiteSpace == {" ", "\n"}

\* The sentinel the source writes 'N/A'.
NA == <<"N","/","A">>

SetMin(S) == CHOOSE x \in S : \A y \in S : x <= y

SetMax(S) == CHOOSE x \in S : \A y \in S : x >= y

IsDigit(c) == c \in Digit

DigitVal(c) == (CHOOSE n \in 1..10 : DigitChars[n] = c) - 1

\* All characters of s[from..to] are digits (and the range lies in s).
AllDigits(s, from, to) ==
    /\ from >= 1
    /\ to <= Len(s)
    /\ \A k \in from..to : IsDigit(s[k])

\* String.prototype.trim
Trim(s) ==
    LET solid == {i \in 1..Len(s) : s[i] \notin WhiteSpace}
    IN  IF solid = {} THEN <<>> ELSE SubSeq(s, SetMin(solid), SetMax(solid))

\* pat occurs in s at index i.
StartsAt(s, pat, i) ==
    /\ i >= 1
    /\ i + Len(pat) - 1 <= Len(s)
    /\ SubSeq(s, i, i + Len(pat) - 1) = pat

\* Index of the first occurrence of pat in s, 0 when there is none.
IndexOf(s, pat) ==
    LET hits == {i \in 1..Len(s) : StartsAt(s, pat, i)}
    IN  IF hits = {} THEN 0 ELSE SetMin(hits)

\* `x || 'N/A'` for a string x: the empty string is falsy.
OrNA(s) == IF s = <<>> THEN NA ELSE s

\* An attribute read with .attr(): undefined when the selection is empty or
\* the element has no such attribute.
Undefined == [present |-> FALSE, val |-> <<>>]

Attr(v) == [present |-> TRUE, val |-> v]

\* `attr || 'N/A'`: undefined and the empty string are falsy.
AttrOrNA(a) == IF a.present /\ a.val # <<>> THEN a.val ELSE NA

\* `attr?.trim() || 'N/A'`
AttrTrimOrNA(a) == IF a.present THEN OrNA(Trim(a.val)) ELSE NA

\* .eq(i).text() of a selection of elements with a text: the empty string
\* when the selection has no element i (zero-based).
EqText(sel, i) == IF i + 1 <= Len(sel) THEN sel[i + 1].text ELSE <<>>

\* .attr(name) of a selection reads the first element's attribute.
FirstAttr(sel, name) == IF sel = <<>> THEN Undefined ELSE sel[1][name]

RECURSIVE DigitsToNat(_)
DigitsToNat(s) ==
    IF s = <<>> THEN 0
    ELSE 10 * DigitsToNat(SubSeq(s, 1, Len(s) - 1)) + DigitVal(s[Len(s)])


(***************************************************************************)
(* Row Extractor: the fields of playerData (tm.js lines 68-162)            *)
(***************************************************************************)

\* The value the source writes null.
Null == [null |-> TRUE]

\* name: first primary link's text, trimmed.
ExtractName(row) == OrNA(Trim(EqText(row.hauptlink_a, 0)))

\* href.split("spieler/")[1]: the text between the first and the second
\* occurrence of the marker; undefined when the marker does not occur.
SpielerMarker == <<"s","p","i","e","l","e","r","/">>

SplitSpieler1(href) ==
    LET i == IndexOf(href, SpielerMarker)
        rest == SubSeq(href, i + Len(SpielerMarker), Len(href))
        j == IndexOf(rest, SpielerMarker)
    IN  IF i = 0 THEN Undefined
        ELSE IF j = 0 THEN Attr(rest)
        ELSE Attr(SubSeq(rest, 1, j - 1))

\* .attr('href').split(...) throws a TypeError when .attr gives undefined.
IdThrows(row) == ~FirstAttr(row.hauptlink_a, "href").present

\* The id without the `|| 'N/A'` default.
ExtractIdNoDefault(row) == SplitSpieler1(FirstAttr(row.hauptlink_a, "href").val).val

ExtractId(row) == AttrOrNA(SplitSpieler1(FirstAttr(row.hauptlink_a, "href").val))

\* position: text of the cell find('td').eq(4).
ExtractPosition(row) == OrNA(Trim(EqText(row.td, 4)))

ExtractShirtNumber(row) == OrNA(Trim(EqText(row.rn_nummer, 0)))

ExtractImage(row) == AttrOrNA(FirstAttr(row.portrait_img, "data_src"))

\* /^(\d{2}\/\d{2}\/\d{4}) \((\d{2})\)$/ : whether s matches.
DobMatches(s) ==
    /\ Len(s) = 15
    /\ AllDigits(s, 1, 2) /\ s[3] = "/"
    /\ AllDigits(s, 4, 5) /\ s[6] = "/"
    /\ AllDigits(s, 7, 10)
    /\ s[11] = " " /\ s[12] = "("
    /\ AllDigits(s, 13, 14) /\ s[15] = ")"

DobText(row) == Trim(EqText(row.zentriert, 1))

\* .match(...)[1] on a null match throws a TypeError.
DobThrows(row) == ~DobMatches(DobText(row))

ExtractDateOfBirth(row) == SubSeq(DobText(row), 1, 10)

ExtractAge(row) == SubSeq(DobText(row), 13, 14)

\* The i-th (zero-based) centered cell, as a selection of 0 or 1 element.
ZentriertEq(row, i) ==
    IF i + 1 <= Len(row.zentriert) THEN <<row.zentriert[i + 1]>> ELSE <<>>

\* find(tag) below a selection: the elements of every member, in document order.
RECURSIVE Find(_, _)
Find(sel, tag) ==
    IF sel = <<>> THEN <<>> ELSE sel[1][tag] \o Find(Tail(sel), tag)

\* A loop that pushes every title, the defaulted ones too.
RECURSIVE PushAllTitles(_, _)
PushAllTitles(imgs, nationalities) ==
    IF imgs = <<>> THEN nationalities
    ELSE PushAllTitles(Tail(imgs), Append(nationalities, AttrOrNA(imgs[1].title)))

\* The loop of lines 87-92: push every title that is not falsy and not 'N/A'.
RECURSIVE PushNationalities(_, _)
PushNationalities(imgs, nationalities) ==
    IF imgs = <<>> THEN nationalities
    ELSE LET nationality == AttrOrNA(imgs[1].title)
         IN  PushNationalities(Tail(imgs),
                 IF nationality # NA THEN Append(nationalities, nationality)
                 ELSE nationalities)

ExtractNationality(row) ==
    LET nationalities == PushNationalities(Find(ZentriertEq(row, 2), "img"), <<>>)
    IN  IF Len(nationalities) > 0 THEN nationalities ELSE <<NA>>

\* /\d{1},\d{2}/ : the first match in s, or the empty text.
HeightMatch(s) ==
    LET hits == {i \in 1..Len(s) :
                    /\ i + 3 <= Len(s)
                    /\ IsDigit(s[i]) /\ s[i + 1] = ","
                    /\ AllDigits(s, i + 2, i + 3)}
    IN  IF hits = {} THEN <<>> ELSE SubSeq(s, SetMin(hits), SetMin(hits) + 3)

ExtractHeight(row) == OrNA(HeightMatch(Trim(EqText(row.zentriert, 3))))

ExtractFoot(row) == OrNA(Trim(EqText(row.zentriert, 4)))

ExtractJoined(row) == OrNA(Trim(EqText(row.zentriert, 5)))

ExtractContractUntil(row) == OrNA(Trim(EqText(row.zentriert, 7)))

\* Length of the longest digit run of s that starts at i (0 when s[i] is no digit).
DigitRun(s, i) ==
    LET ends == {j \in i..Len(s) : AllDigits(s, i, j)}
    IN  IF ends = {} THEN 0 ELSE SetMax(ends) - i + 1

\* /verein\/(\d+)/ : group 1 of the first match in an attribute, 'N/A' when
\* the attribute is undefined or does not match.
VereinMarker == <<"v","e","r","e","i","n","/">>

VereinId(a) ==
    LET s == a.val
        hits == {i \in 1..Len(s) :
                    StartsAt(s, VereinMarker, i) /\ DigitRun(s, i + Len(VereinMarker)) > 0}
        d == SetMin(hits) + Len(VereinMarker)
    IN  IF ~a.present \/ hits = {} THEN NA
        ELSE SubSeq(s, d, d + DigitRun(s, d) - 1)

(***************************************************************************)
(* marketValue (lines 110-126): the pattern                                *)
(*   /(\d{1,3}(?:\.\d{3})*(?:,\d{2})?)\s*(mil|mi\.?)\s*([€$£])/            *)
(* A match is described by the choices the matcher makes: the number of    *)
(* leading digits, of ".ddd" groups, whether ",dd" is taken, the run of    *)
(* white space before the unit, the unit alternative, the run of white     *)
(* space after it.  The matcher prefers the leftmost start and then the    *)
(* greedy choice of each quantifier, alternatives left to right.           *)
(***************************************************************************)

CurrencySymbols == {"€", "$", "£"}

\* The alternatives of (mil|mi\.?) in the order the matcher tries them.
UnitAlternatives == << <<"m","i","l">>, <<"m","i",".">>, <<"m","i">> >>

\* The number of consecutive groups ".ddd" that stand at s[p], s[p+4], ...
RECURSIVE GroupRun(_, _)
GroupRun(s, p) ==
    IF p + 3 <= Len(s) /\ s[p] = "." /\ AllDigits(s, p + 1, p + 3)
    THEN 1 + GroupRun(s, p + 4)
    ELSE 0

\* The length of the run of white space that starts at s[p].
RECURSIVE SpaceRun(_, _)
SpaceRun(s, p) ==
    IF p <= Len(s) /\ s[p] \in WhiteSpace THEN 1 + SpaceRun(s, p + 1) ELSE 0

\* ",dd" stands at s[p].
DecimalsAt(s, p) == p + 2 <= Len(s) /\ s[p] = "," /\ AllDigits(s, p + 1, p + 2)

\* Every way the pattern matches t from index i on: each quantifier may
\* take any number of repetitions that are there, each alternative that fits
\* may be the one taken.
MarketValueMatchesAt(t, i) ==
    UNION { UNION { UNION { UNION { UNION {
        { [start |-> i, nd |-> nd, ng |-> ng, dec |-> dec, ws1 |-> ws1, alt |-> alt,
           ws2 |-> ws2,
           amountEnd |-> i + nd + 4 * ng + 3 * dec - 1,
           unitAt |-> i + nd + 4 * ng + 3 * dec + ws1,
           currencyAt |-> i + nd + 4 * ng + 3 * dec + ws1 + Len(UnitAlternatives[alt]) + ws2]
          : ws2 \in {w \in 0..SpaceRun(t, i + nd + 4 * ng + 3 * dec + ws1
                                          + Len(UnitAlternatives[alt])) :
                LET c == i + nd + 4 * ng + 3 * dec + ws1 + Len(UnitAlternatives[alt])
                IN  c + w <= Len(t) /\ t[c + w] \in CurrencySymbols} }
        : alt \in {a \in 1..Len(UnitAlternatives) :
                StartsAt(t, UnitAlternatives[a], i + nd + 4 * ng + 3 * dec + ws1)} }
        : ws1 \in 0..SpaceRun(t, i + nd + 4 * ng + 3 * dec) }
        : dec \in {d \in {0, 1} : d = 1 => DecimalsAt(t, i + nd + 4 * ng)} }
        : ng \in 0..GroupRun(t, i + nd) }
        : nd \in {n \in 1..3 : AllDigits(t, i, i + n - 1)} }

\* The matcher's preference among the matches at one start: a greedy
\* quantifier takes more first, an alternation its earlier alternative first.
Prefers(m1, m2) ==
    LET k1 == <<m1.nd, m1.ng, m1.dec, m1.ws1, 0 - m1.alt, m1.ws2>>
        k2 == <<m2.nd, m2.ng, m2.dec, m2.ws1, 0 - m2.alt, m2.ws2>>
    IN  \E j \in 1..6 : /\ k1[j] > k2[j]
                        /\ \A h \in 1..(j - 1) : k1[h] = k2[h]

\* The match the matcher reports among those at one start.
Preferred(ms) == CHOOSE m \in ms : \A o \in ms : o = m \/ Prefers(m, o)

\* The matcher tries the starts from left to right.
RECURSIVE MarketValueMatchFrom(_, _)
MarketValueMatchFrom(t, i) ==
    IF i > Len(t) THEN Null
    ELSE IF MarketValueMatchesAt(t, i) = {} THEN MarketValueMatchFrom(t, i + 1)
    ELSE Preferred(MarketValueMatchesAt(t, i))

\* text.match(pattern): the match, or Null.
MarketValueMatch(t) == MarketValueMatchFrom(t, 1)

\* valueMatch[1].replace(/\./g, '').replace(',', '.')
RawValue(amount) ==
    LET noDots == SelectSeq(amount, LAMBDA c : c # ".")
        comma == IndexOf(noDots, <<",">>)
    IN  IF comma = 0 THEN noDots
        ELSE [noDots EXCEPT ![comma] = "."]

\* parseFloat(raw) in hundredths: raw is digits, then at most "." and two
\* digits.  Hundredths keep the arithmetic of line 118 in the integers.
ParseFloatHundredths(raw) ==
    LET dot == IndexOf(raw, <<".">>)
    IN  IF dot = 0 THEN 100 * DigitsToNat(raw)
        ELSE 100 * DigitsToNat(SubSeq(raw, 1, dot - 1))
             + DigitsToNat(SubSeq(raw, dot + 1, Len(raw)))

Million == 1000000

Thousand == 1000

\* line 118: unit === 'mi.' ? parseFloat(rawValue) * 1_000_000
\*                           : parseFloat(rawValue) * 1_000
NumericValue(unit, rawValue) ==
    IF unit = <<"m","i",".">>
    THEN ParseFloatHundredths(rawValue) * (Million \div 100)
    ELSE ParseFloatHundredths(rawValue) * (Thousand \div 100)

NoMarketValue == [value |-> 0, currency |-> NA]

\* lines 114-125: the result for a text and what match() gave on it.
MarketValueFrom(marketValueText, valueMatch) ==
    IF valueMatch # Null
    THEN [value |-> NumericValue(UnitAlternatives[valueMatch.alt],
                       RawValue(SubSeq(marketValueText, valueMatch.start,
                                       valueMatch.amountEnd))),
          currency |-> <<marketValueText[valueMatch.currencyAt]>>]
    ELSE NoMarketValue

\* lines 111-125
MarketValueOf(text) ==
    IF OrNA(Trim(text)) # NA
    THEN MarketValueFrom(OrNA(Trim(text)), MarketValueMatch(OrNA(Trim(text))))
    ELSE NoMarketValue

ExtractMarketValue(row) == MarketValueOf(EqText(row.rechts, 0))

(***************************************************************************)
(* Marker icons, lastClub, additionalInformation, and the whole row        *)
(***************************************************************************)

ExtractInjury(row) == row.verletzt_table > 0

ExtractCaptain(row) == row.kapitaenicon_table > 0

ExtractSuspension(row) == row.ausfall_1_table > 0

\* Variant of ExtractLastClub that looks at the cell's content, not at its
\* presence: an empty signed-from cell gives null.
ExtractLastClubIfContent(row) ==
    LET linkElement == ZentriertEq(row, 6)
    IN  IF /\ Len(linkElement) > 0
           /\ \/ Trim(linkElement[1].text) # <<>>
              \/ linkElement[1].img # <<>>
              \/ linkElement[1].a # <<>>
        THEN [signed_from_club_name |->
                  AttrTrimOrNA(FirstAttr(Find(linkElement, "img"), "title")),
              signed_from_club_id |-> VereinId(FirstAttr(Find(linkElement, "a"), "href")),
              signed_from_club_image_url |->
                  AttrOrNA(FirstAttr(Find(linkElement, "img"), "src"))]
        ELSE Null

\* lines 128-142: `if (linkElement.length)` asks whether the 7th centered
\* cell exists.
ExtractLastClub(row) ==
    LET linkElement == ZentriertEq(row, 6)
    IN  IF Len(linkElement) > 0
        THEN [signed_from_club_name |->
                  AttrTrimOrNA(FirstAttr(Find(linkElement, "img"), "title")),
              signed_from_club_id |-> VereinId(FirstAttr(Find(linkElement, "a"), "href")),
              signed_from_club_image_url |->
                  AttrOrNA(FirstAttr(Find(linkElement, "img"), "src"))]
        ELSE Null

\* lines 144-160
ExtractAdditionalInformation(row) ==
    LET linkElement == row.wechsel_kader_wappen_a
    IN  IF Len(linkElement) > 0
        THEN [content |-> AttrTrimOrNA(FirstAttr(linkElement, "title")),
              info_club_name |-> AttrTrimOrNA(FirstAttr(Find(linkElement, "img"), "title")),
              info_club_id |-> VereinId(FirstAttr(linkElement, "href")),
              info_club_image_url |-> AttrOrNA(FirstAttr(Find(linkElement, "img"), "src"))]
        ELSE Null

\* The object literal of lines 68-162, when no field throws.
PlayerData(row) ==
    [name |-> ExtractName(row),
     id |-> ExtractId(row),
     position |-> ExtractPosition(row),
     shirtNumber |-> ExtractShirtNumber(row),
     image |-> ExtractImage(row),
     dateOfBirth |-> ExtractDateOfBirth(row),
     age |-> ExtractAge(row),
     nationality |-> ExtractNationality(row),
     height |-> ExtractHeight(row),
     foot |-> ExtractFoot(row),
     injury |-> ExtractInjury(row),
     captain |-> ExtractCaptain(row),
     suspension |-> ExtractSuspension(row),
     joined |-> ExtractJoined(row),
     contractUntil |-> ExtractContractUntil(row),
     marketValue |-> ExtractMarketValue(row),
     lastClub |-> ExtractLastClub(row),
     additionalInformation |-> ExtractAdditionalInformation(row)]

\* Building the object literal throws when the id or the date of birth does.
RowThrows(row) == IdThrows(row) \/ DobThrows(row)

Thrown == [threw |-> TRUE]

\* One call of the .each callback on a row: a Player, or the throw.
RowExtractor(row) ==
    IF RowThrows(row) THEN Thrown
    ELSE [threw |-> FALSE, player |-> PlayerData(row)]

(***************************************************************************)
(* Markup: rows as the selectors of the source see them                    *)
(***************************************************************************)

T(text) == [text |-> text]

Cell(text, img, a) == [text |-> text, img |-> img, a |-> a]

Img(title, src) == [title |-> title, src |-> src]

\* The row of the example in the header comment of getClubSquad (lines 20-53).
BaseRow ==
    [hauptlink_a |-> << [text |-> <<"H","u","g","o"," ","S","o","u","z","a">>,
                         href |-> Attr(<<"/","h","u","g","o","-","s","o","u","z","a","/","p","r","o","f","i","l","/","s","p","i","e","l","e","r","/","5","7","4","9","0","1">>)] >>,
     td |-> << T(<<"1">>), T(<<"H","u","g","o"," ","S","o","u","z","a"," ","G","o","l","e","i","r","o">>), T(<<>>), T(<<"H","u","g","o"," ","S","o","u","z","a">>),
               T(<<"G","o","l","e","i","r","o">>) >>,
     rn_nummer |-> << T(<<"1">>) >>,
     portrait_img |-> << [data_src |-> Attr(<<"5","7","4","9","0","1",".","j","p","g">>)] >>,
     zentriert |-> << Cell(<<"1">>, <<>>, <<>>),
                      Cell(<<"3","1","/","0","1","/","1","9","9","9"," ","(","2","5",")">>, <<>>, <<>>),
                      Cell(<<>>, << Img(Attr(<<"B","r","a","s","i","l">>), Attr(<<"b","r",".","p","n","g">>)) >>, <<>>),
                      Cell(<<"1",",","9","9","m">>, <<>>, <<>>),
                      Cell(<<"d","i","r","e","i","t","o">>, <<>>, <<>>),
                      Cell(<<"1","0","/","0","7","/","2","0","2","4">>, <<>>, <<>>),
                      Cell(<<>>, << Img(Attr(<<"C","R"," ","F","l","a","m","e","n","g","o">>), Attr(<<"6","1","4",".","p","n","g">>)) >>,
                           << [href |-> Attr(<<"/","c","r","-","f","l","a","m","e","n","g","o","/","s","t","a","r","t","s","e","i","t","e","/","v","e","r","e","i","n","/","6","1","4","/","s","a","i","s","o","n","_","i","d","/","2","0","2","3">>)] >>),
                      Cell(<<"3","1","/","1","2","/","2","0","2","4">>, <<>>, <<>>) >>,
     verletzt_table |-> 0,
     kapitaenicon_table |-> 0,
     ausfall_1_table |-> 0,
     rechts |-> << T(<<"4",",","0","0"," ","m","i","."," ","€">>) >>,
     wechsel_kader_wappen_a |-> << [title |-> Attr(<<"E","m","p","r","e","s","t","a","d","o"," ","d","o",":"," ","C","R"," ","F","l","a","m","e","n","g","o">>),
                                    href |-> Attr(<<"/","c","r","-","f","l","a","m","e","n","g","o","/","s","t","a","r","t","s","e","i","t","e","/","v","e","r","e","i","n","/","6","1","4">>),
                                    img |-> << Img(Attr(<<"C","R"," ","F","l","a","m","e","n","g","o">>), Attr(<<"6","1","4",".","p","n","g">>)) >>] >>]

\* Sequences over S of length at most n.
SeqsUpTo(S, n) == UNION {[1..k -> S] : k \in 0..n}

\* Market value texts: an amount, a unit and a currency, each from a small
\* set that holds the well-formed and the malformed, with or without blanks.
AmountTexts ==
    {<<>>, <<"4",",","0","0">>, <<"5","0","0">>, <<"2","5">>, <<"1",".","0","0","0">>, <<"1",".","5","0","0",",","5","0">>, <<"1","2","3","4">>, <<"1","2",",","5">>,
     <<"1",".","2","3","4","5">>, <<"0",",","7","5">>}

UnitTexts == {<<>>, <<"m","i","l">>, <<"m","i",".">>, <<"m","i">>, <<"m">>, <<"M","i","l">>, <<"m","i","l","h","õ","e","s">>}

CurrencyTexts == {<<>>, <<"€">>, <<"$">>, <<"£">>, <<"R","$">>}

Blanks == {<<>>, <<" ">>}

MarketValueTexts ==
    {a \o b1 \o u \o b2 \o c :
        a \in AmountTexts, b1 \in Blanks, u \in UnitTexts, b2 \in Blanks,
        c \in CurrencyTexts}
    \cup {p \o <<"4",",","0","0"," ","m","i","."," ","€">> \o q : p \in {<<>>, <<" ">>, <<"1">>, <<"x">>},
                                    q \in {<<>>, <<" ">>, <<"x">>}}
    \cup {NA, <<"-">>}

\* Flag images of the nationality cell: titles present, empty, missing or 'N/A'.
MaxFlags == 2

FlagTitles == {Attr(<<"B","r","a","s","i","l">>), Attr(<<"P","o","r","t","u","g","a","l">>), Attr(<<>>), Attr(NA), Undefined}

FlagImgs == {Img(t, Attr(<<"f",".","p","n","g">>)) : t \in FlagTitles}

\* Primary links: none, one without href, and hrefs with and without the marker.
HrefTexts ==
    {<<>>, <<"/","h","u","g","o","-","s","o","u","z","a","/","p","r","o","f","i","l","/","s","p","i","e","l","e","r","/","5","7","4","9","0","1">>, <<"/","h","u","g","o","-","s","o","u","z","a","/","p","r","o","f","i","l","/","s","p","i","e","l","e","r","/">>,
     <<"/","h","u","g","o","-","s","o","u","z","a","/","p","r","o","f","i","l","/","5","7","4","9","0","1">>, <<"/","s","p","i","e","l","e","r","/","5","7","4","9","0","1","/","s","p","i","e","l","e","r","/","1">>, <<"s","p","i","e","l","e","r","/"," ">>}

LinkTexts == {<<>>, <<" ">>, <<"H","u","g","o"," ","S","o","u","z","a">>, <<" ","H","u","g","o","\n">>}

PrimaryLinks ==
    {<<>>}
    \cup {<< [text |-> t, href |-> h] >> :
             t \in LinkTexts, h \in {Undefined} \cup {Attr(x) : x \in HrefTexts}}
    \cup {<< [text |-> <<"H","u","g","o"," ","S","o","u","z","a">>, href |-> Undefined],
             [text |-> <<"B">>, href |-> Attr(<<"/","b","/","p","r","o","f","i","l","/","s","p","i","e","l","e","r","/","2">>)] >>}

DobTexts ==
    {<<>>, <<"3","1","/","0","1","/","1","9","9","9"," ","(","2","5",")">>, <<" ","3","1","/","0","1","/","1","9","9","9"," ","(","2","5",")","\n">>, <<"3","1","/","0","1","/","1","9","9","9">>,
     <<"3","1","/","0","1","/","1","9","9","9"," ","(","5",")">>, <<"3","1",".","0","1",".","1","9","9","9"," ","(","2","5",")">>, <<"-">>, <<"x","3","1","/","0","1","/","1","9","9","9"," ","(","2","5",")">>}

\* Signed-from cells: empty, blank, and with part of the club markup.
SignedFromCells ==
    {Cell(t, i, l) :
        t \in {<<>>, <<" ">>},
        i \in {<<>>, << Img(Attr(<<"C","R"," ","F","l","a","m","e","n","g","o">>), Attr(<<"6","1","4",".","p","n","g">>)) >>,
               << Img(Undefined, Attr(<<>>)) >>, << Img(Attr(<<" ">>), Undefined) >>},
        l \in {<<>>, << [href |-> Attr(<<"/","c","r","-","f","l","a","m","e","n","g","o","/","s","t","a","r","t","s","e","i","t","e","/","v","e","r","e","i","n","/","6","1","4","/","s","a","i","s","o","n","_","i","d","/","2","0","2","3">>)] >>,
               << [href |-> Undefined] >>, << [href |-> Attr(<<"/","v","e","r","e","i","n","/","x","/","v","e","r","e","i","n","/">>)] >>}}

\* The rows extraction is tried on: the example row with one part varied.
RowInputs ==
    {[BaseRow EXCEPT !.rechts = << T(t) >>] : t \in MarketValueTexts}
    \cup {[BaseRow EXCEPT !.rechts = r] :
             r \in {<<>>, << T(<<"-">>), T(<<"5","0","0"," ","m","i","l"," ","€">>) >>}}
    \cup {[BaseRow EXCEPT !.zentriert[3] = Cell(<<>>, imgs, <<>>)] :
             imgs \in SeqsUpTo(FlagImgs, MaxFlags)}
    \cup {[BaseRow EXCEPT !.hauptlink_a = l] : l \in PrimaryLinks}
    \cup {[BaseRow EXCEPT !.td = SubSeq(BaseRow.td, 1, n)] : n \in 0..4}
    \cup {[BaseRow EXCEPT !.td[5] = T(t)] : t \in {<<>>, <<" ">>, <<" ","Z","a","g","u","e","i","r","o"," ">>}}
    \cup {[BaseRow EXCEPT !.zentriert[2] = Cell(t, <<>>, <<>>)] : t \in DobTexts}
    \cup {[BaseRow EXCEPT !.zentriert = SubSeq(BaseRow.zentriert, 1, n)] : n \in 0..7}
    \cup {[BaseRow EXCEPT !.zentriert[7] = c] : c \in SignedFromCells}
    \cup {[BaseRow EXCEPT !.zentriert[4] = Cell(t, <<>>, <<>>)] :
             t \in {<<>>, <<"1",",","9","9","m">>, <<"1","9","9">>, <<"1",",","9">>, <<"1","1",",","8","5","5">>}}
    \cup {[BaseRow EXCEPT !.wechsel_kader_wappen_a = w] :
             w \in {<<>>, << [title |-> Undefined, href |-> Undefined, img |-> <<>>] >>}}
    \cup {[BaseRow EXCEPT !.portrait_img = i] :
             i \in {<<>>, << [data_src |-> Undefined] >>, << [data_src |-> Attr(<<>>)] >>}}
    \cup {[BaseRow EXCEPT !.verletzt_table = i, !.kapitaenicon_table = k,
                          !.ausfall_1_table = a] :
             i \in {0, 1}, k \in {0, 1}, a \in {0, 1}}

(***************************************************************************)
(* The service: requests to GET /api/club/:id/players, each calling        *)
(* getClubSquad, which awaits one upstream fetch                           *)
(***************************************************************************)

VARIABLES
    rosterPage,  \* the roster page the upstream site holds for the known club
    pc,          \* per request: idle, fetching, settled, responded
    clubId,      \* per request: req.params.id
    fetched,     \* per request: what axios.get(url) settled with
    squad,       \* per request: how the promise of getClubSquad settled
    response,    \* per request: the responses sent, in order
    givenRow,    \* a row of markup handed to the row extractor
    playerData   \* what the row extractor made of it

vars == <<rosterPage, pc, clubId, fetched, squad, response, givenRow, playerData>>

NumReq == 2

MaxRows == 2

Requests == 1..NumReq

\* The club the upstream site knows, and an id it has no page for.
KnownClub == "614"

ClubIds == {KnownClub, "0"}

\* line 58
Url(id_clube) ==
    <<"https://www.transfermarkt.com.br/club/kader/verein/", id_clube, "/plus/1">>

Pending == [pending |-> TRUE]

\* A second well-formed row, and a row whose date-of-birth cell has no age.
RowB ==
    [BaseRow EXCEPT !.hauptlink_a = << [text |-> <<"P","e","d","r","o">>,
                                        href |-> Attr(<<"/","p","e","d","r","o","/","p","r","o","f","i","l","/","s","p","i","e","l","e","r","/","4","3","2","8","9","5">>)] >>,
                    !.td[5] = T(<<"C","e","n","t","r","o","a","v","a","n","t","e">>),
                    !.zentriert[3] = Cell(<<>>, << Img(Attr(<<"B","r","a","s","i","l">>), Attr(<<"b","r",".","p","n","g">>)),
                                                   Img(Attr(<<"P","o","r","t","u","g","a","l">>), Attr(<<"p","t",".","p","n","g">>)) >>,
                                          <<>>),
                    !.zentriert[7] = Cell(<<>>, <<>>, <<>>),
                    !.rechts = << T(<<"5","0","0"," ","m","i","l"," ","€">>) >>,
                    !.wechsel_kader_wappen_a = <<>>]

RowBadDob == [RowB EXCEPT !.zentriert[2] = Cell(<<"3","1","/","0","1","/","1","9","9","9">>, <<>>, <<>>)]

\* The markup of the rows a page can hold, by name.
RowMarkup == [hugo |-> BaseRow, pedro |-> RowB, pedro_no_age |-> RowBadDob]

\* The tr elements below table.items tbody, each with the name of its
\* markup: roster rows carry the class odd or even, the rows of a nested
\* table carry neither.
TableRows ==
    {[class |-> "odd", markup |-> "hugo"],
     [class |-> "even", markup |-> "pedro"],
     [class |-> "even", markup |-> "pedro_no_age"],
     [class |-> "", markup |-> "pedro"]}

MarkupOf(tr) == RowMarkup[tr.markup]

\* What the .each callback builds for each named markup (the row extractor
\* is a function of the row alone, so it is worked out once per row).
RowExtracted ==
    [hugo |-> RowExtractor(RowMarkup.hugo),
     pedro |-> RowExtractor(RowMarkup.pedro),
     pedro_no_age |-> RowExtractor(RowMarkup.pedro_no_age)]

Pages == SeqsUpTo(TableRows, MaxRows)

\* What axios.get(url) can settle with: the response body, or a rejection
\* (no response at all, or a status outside 2xx for a club the site lacks).
Upstream(url) ==
    IF url = Url(KnownClub)
    THEN {[kind |-> "ok", data |-> rosterPage], [kind |-> "network_error"]}
    ELSE {[kind |-> "http_status_error"], [kind |-> "network_error"]}

Fulfilled(value) == [kind |-> "fulfilled", value |-> value]

Rejected == [kind |-> "rejected"]

\* The players of some other settled call, as an array shared by the calls
\* would hold them.
PlayersOfEarlierCall ==
    LET done == {q \in Requests : squad[q] # Pending /\ squad[q].kind = "fulfilled"}
    IN  IF done = {} THEN <<>> ELSE squad[SetMin(done)].value

\* line 64: const players = []
NewPlayers == <<>>

\* A selection that lists the odd rows before the even rows.
OddThenEven(page) ==
    SelectSeq(page, LAMBDA tr : tr.class = "odd")
    \o SelectSeq(page, LAMBDA tr : tr.class = "even")

\* line 66: $('table.items tbody tr.odd, table.items tbody tr.even'), a
\* selection in document order.
MatchedRows(page) == SelectSeq(page, LAMBDA tr : tr.class \in {"odd", "even"})

\* A loop that leaves out a row whose extraction throws and goes on.
RECURSIVE EachRowSkipping(_, _)
EachRowSkipping(rows, players) ==
    IF rows = <<>> THEN [threw |-> FALSE, players |-> players]
    ELSE EachRowSkipping(Tail(rows),
             IF RowExtracted[rows[1].markup].threw THEN players
             ELSE Append(players, RowExtracted[rows[1].markup].player))

\* lines 66-166: .each over the matched rows, pushing one playerData per
\* row; a throw in the callback leaves the loop.
RECURSIVE EachRow(_, _)
EachRow(rows, players) ==
    IF rows = <<>> THEN [threw |-> FALSE, players |-> players]
    ELSE IF RowExtracted[rows[1].markup].threw THEN Thrown
    ELSE EachRow(Tail(rows), Append(players, RowExtracted[rows[1].markup].player))

\* A catch block that passes the error on.
CatchRethrows == Rejected

\* lines 170-175: the catch block logs and returns [].
CatchBlock == Fulfilled(<<>>)

\* lines 62-175: getClubSquad from the point where axios.get settles.
GetClubSquad(upstream) ==
    IF upstream.kind # "ok" THEN CatchBlock
    ELSE LET result == EachRow(MatchedRows(upstream.data), NewPlayers)
         IN  IF result.threw THEN CatchBlock ELSE Fulfilled(result.players)

ErrorBody == [message |-> "Erro ao buscar dados dos jogadores"]

\* A handler that answers an empty squad as an error.
RouteReplyEmptyIsError(settled) ==
    IF settled.kind = "fulfilled" /\ settled.value # <<>>
    THEN [status |-> 200, body |-> settled.value]
    ELSE [status |-> 500, body |-> ErrorBody]

\* lines 194-204: res.json(players), or status 500 from the catch.
RouteReply(settled) ==
    IF settled.kind = "fulfilled"
    THEN [status |-> 200, body |-> settled.value]
    ELSE [status |-> 500, body |-> ErrorBody]

RowIdle == givenRow = BaseRow /\ playerData = Pending

Init ==
    /\ rosterPage \in Pages
    /\ pc = [r \in Requests |-> "idle"]
    /\ clubId = [r \in Requests |-> ""]
    /\ fetched = [r \in Requests |-> Pending]
    /\ squad = [r \in Requests |-> Pending]
    /\ response = [r \in Requests |-> <<>>]
    /\ RowIdle

\* lines 190-196 and 56-62: the route handler reads the id and calls
\* getClubSquad, which issues the GET and awaits it.
Request(r, id) ==
    /\ pc[r] = "idle"
    /\ pc' = [pc EXCEPT ![r] = "fetching"]
    /\ clubId' = [clubId EXCEPT ![r] = id]
    /\ UNCHANGED <<rosterPage, fetched, squad, response, givenRow, playerData>>

\* The GET settles and getClubSquad runs to its return.
FetchSettles(r) ==
    /\ pc[r] = "fetching"
    /\ \E upstream \in Upstream(Url(clubId[r])) :
           /\ fetched' = [fetched EXCEPT ![r] = upstream]
           /\ squad' = [squad EXCEPT ![r] = GetClubSquad(upstream)]
    /\ pc' = [pc EXCEPT ![r] = "settled"]
    /\ UNCHANGED <<rosterPage, clubId, response, givenRow, playerData>>

\* The route handler resumes after `await getClubSquad(clubId)`.
RouteResumes(r) ==
    /\ pc[r] = "settled"
    /\ response' = [response EXCEPT ![r] = Append(@, RouteReply(squad[r]))]
    /\ pc' = [pc EXCEPT ![r] = "responded"]
    /\ UNCHANGED <<rosterPage, clubId, fetched, squad, givenRow, playerData>>

Next ==
    \/ \E r \in Requests, id \in ClubIds : Request(r, id)
    \/ \E r \in Requests : FetchSettles(r)
    \/ \E r \in Requests : RouteResumes(r)

Spec == Init /\ [][Next]_vars

(***************************************************************************)
(* The row extractor on its own: one row in, one playerData or a throw out *)
(***************************************************************************)

ServiceIdle ==
    /\ rosterPage = <<>>
    /\ pc = [r \in Requests |-> "idle"]
    /\ clubId = [r \in Requests |-> ""]
    /\ fetched = [r \in Requests |-> Pending]
    /\ squad = [r \in Requests |-> Pending]
    /\ response = [r \in Requests |-> <<>>]

RowInit ==
    /\ ServiceIdle
    /\ givenRow \in RowInputs
    /\ playerData = Pending

ExtractRow ==
    /\ playerData = Pending
    /\ playerData' = RowExtractor(givenRow)
    /\ UNCHANGED <<rosterPage, pc, clubId, fetched, squad, response, givenRow>>

RowNext == ExtractRow

RowSpec == RowInit /\ [][RowNext]_vars

(***************************************************************************)
(* Properties of the service                                               *)
(***************************************************************************)

Settled(r) == pc[r] \in {"settled", "responded"}

\* The indices of the roster rows of a page, and a row's rank among them.
MatchedIdx(trs) == {i \in 1..Len(trs) : trs[i].class = "odd" \/ trs[i].class = "even"}

Rank(trs, i) == Cardinality({j \in MatchedIdx(trs) : j <= i})

SomeRowThrows(trs) == \E i \in MatchedIdx(trs) : RowExtracted[trs[i].markup].threw

\* The call of request r failed upstream or in the extraction of a row.
CallFailed(r) ==
    \/ fetched[r].kind # "ok"
    \/ SomeRowThrows(fetched[r].data)

\* C1: getClubSquad is fail-soft: whatever the club id and however the fetch
\* or the extraction fails, its promise is fulfilled, never rejected, and on
\* such a failure it is fulfilled with the empty sequence.
FailSoft ==
    \A r \in Requests :
        Settled(r) =>
            /\ squad[r].kind = "fulfilled"
            /\ CallFailed(r) => squad[r].value = <<>>

\* Two calls have settled, one after a network error and one after a status
\* outside 2xx, both with the empty sequence.
FailSoftWitness ==
    \E r1, r2 \in Requests :
        /\ Settled(r1) /\ fetched[r1].kind = "network_error"
        /\ Settled(r2) /\ fetched[r2].kind = "http_status_error"
        /\ squad[r1] = Fulfilled(<<>>) /\ squad[r2] = Fulfilled(<<>>)

\* C2: every request to the players route gets exactly one response, sent
\* when the handler resumes: status 200 with the array getClubSquad gave, or
\* status 500 with the fixed message only if its promise was rejected; a
\* failed fetch or a failed row never leads to the 500.
OneResponse ==
    \A r \in Requests :
        /\ Len(response[r]) = IF pc[r] = "responded" THEN 1 ELSE 0
        /\ \A k \in 1..Len(response[r]) :
              LET res == response[r][k]
              IN  /\ \/ /\ res.status = 200
                        /\ squad[r].kind = "fulfilled"
                        /\ res.body = squad[r].value
                     \/ /\ res.status = 500
                        /\ squad[r].kind = "rejected"
                        /\ res.body = ErrorBody
                  /\ CallFailed(r) => res.status = 200 /\ res.body = <<>>

\* One request was answered 200 with a populated array, another 200 with the
\* empty array after its fetch failed.
OneResponseWitness ==
    \E r1, r2 \in Requests :
        /\ pc[r1] = "responded" /\ fetched[r1].kind = "ok"
        /\ response[r1][1].status = 200 /\ response[r1][1].body # <<>>
        /\ pc[r2] = "responded" /\ fetched[r2].kind # "ok"
        /\ response[r2] = << [status |-> 200, body |-> <<>>] >>

\* C3: when the fetch succeeds and no row throws, the result holds exactly
\* one Player per roster row (class odd or even), the k-th Player extracted
\* from the k-th roster row of the document.
DocumentOrder ==
    \A r \in Requests :
        (Settled(r) /\ ~CallFailed(r)) =>
            LET trs == fetched[r].data
            IN  /\ squad[r].kind = "fulfilled"
                /\ Len(squad[r].value) = Cardinality(MatchedIdx(trs))
                /\ \A i \in MatchedIdx(trs) :
                      squad[r].value[Rank(trs, i)] = RowExtracted[trs[i].markup].player

\* A page of an even row followed by an odd row gave two different Players.
DocumentOrderWitness ==
    \E r \in Requests :
        /\ Settled(r) /\ fetched[r].kind = "ok"
        /\ Len(fetched[r].data) = 2
        /\ fetched[r].data[1].class = "even" /\ fetched[r].data[2].class = "odd"
        /\ Len(squad[r].value) = 2
        /\ squad[r].value[1] # squad[r].value[2]

FailAll ==
    \A r \in Requests :
        (Settled(r) /\ fetched[r].kind = "ok") =>
            LET trs == fetched[r].data
            IN  /\ SomeRowThrows(trs) => squad[r].value = <<>>
                /\ \/ squad[r].value = <<>>
                   \/ Len(squad[r].value) = Cardinality(MatchedIdx(trs))

\* A well-formed roster row followed by one with a malformed date of birth:
\* the Player of the first is dropped with the rest.
FailAllWitness ==
    \E r \in Requests :
        /\ Settled(r) /\ fetched[r].kind = "ok"
        /\ Len(fetched[r].data) = 2
        /\ MatchedIdx(fetched[r].data) = {1, 2}
        /\ ~RowThrows(MarkupOf(fetched[r].data[1]))
        /\ DobThrows(MarkupOf(fetched[r].data[2]))
        /\ ~IdThrows(MarkupOf(fetched[r].data[2]))
        /\ squad[r] = Fulfilled(<<>>)

(***************************************************************************)
(* Properties of the row extractor                                         *)
(***************************************************************************)

\* The row extractor has run on givenRow and built a Player.
Built == playerData # Pending /\ ~playerData.threw

\* The amount of a matched market value in hundredths, read off its digits:
\* those before the comma, and the two after it.
AmountHundredths(amount) ==
    LET comma == IndexOf(amount, <<",">>)
        whole == IF comma = 0 THEN amount ELSE SubSeq(amount, 1, comma - 1)
        cents == IF comma = 0 THEN <<>> ELSE SubSeq(amount, comma + 1, Len(amount))
    IN  100 * DigitsToNat(SelectSeq(whole, IsDigit)) + DigitsToNat(cents)

\* C4: a market-value text that matches the pattern gives the amount times
\* 1,000,000 when the unit is 'mi.' and otherwise the unit is 'mil' and it
\* gives the amount times 1,000, with the matched currency symbol; a text
\* that does not match gives value 0 and currency 'N/A'.
MarketValueNormalized ==
    Built =>
        LET text == OrNA(Trim(EqText(givenRow.rechts, 0)))
            m == MarketValueMatch(text)
            unit == UnitAlternatives[m.alt]
            hundredths == AmountHundredths(SubSeq(text, m.start, m.amountEnd))
            mv == playerData.player.marketValue
        IN  IF m = Null THEN mv = NoMarketValue
            ELSE /\ mv.currency = <<text[m.currencyAt]>>
                 /\ IF unit = <<"m","i",".">> THEN mv.value = hundredths * 10000
                    ELSE unit = <<"m","i","l">> /\ mv.value = hundredths * 10

\* C5: the extraction rules are independent: but for the date of birth, a
\* missing sub-element does not abort the row; the Player is built, and with
\* no primary link its id is 'N/A'.
RowNeverAborts ==
    (playerData # Pending /\ DobMatches(DobText(givenRow))) =>
        /\ ~playerData.threw
        /\ givenRow.hauptlink_a = <<>> => playerData.player.id = NA

\* The href of the first primary link ends with the marker 'spieler/'.
NothingAfterMarker(href) ==
    /\ IndexOf(href, SpielerMarker) # 0
    /\ IndexOf(href, SpielerMarker) + Len(SpielerMarker) - 1 = Len(href)

\* C6: every Player has name, id and position as non-empty strings, 'N/A'
\* when the markup gives nothing; the id is 'N/A' whenever the href of the
\* primary link has nothing after the marker (or has no marker).
RequiredFields ==
    Built =>
        LET p == playerData.player
            href == givenRow.hauptlink_a[1].href.val
        IN  /\ Len(p.name) > 0 /\ Len(p.id) > 0 /\ Len(p.position) > 0
            /\ Trim(givenRow.hauptlink_a[1].text) = <<>> => p.name = NA
            /\ (Len(givenRow.td) < 5 \/ Trim(givenRow.td[5].text) = <<>>) => p.position = NA
            /\ (NothingAfterMarker(href) \/ IndexOf(href, SpielerMarker) = 0) => p.id = NA

\* A Player was built from a link whose href ends with the marker.
RequiredFieldsWitness ==
    /\ Built
    /\ NothingAfterMarker(givenRow.hauptlink_a[1].href.val)
    /\ playerData.player.id = NA

\* The flag images of the nationality cell of a row.
FlagsOf(r) == IF Len(r.zentriert) >= 3 THEN r.zentriert[3].img ELSE <<>>

\* The titles that count: present, not empty and not 'N/A'.
RealTitle(img) == img.title.present /\ img.title.val # <<>> /\ img.title.val # NA

\* C7: the nationality of a Player is a non-empty sequence: the titles of
\* the flag images that count, in document order, or exactly ['N/A'] when
\* none does, so that 'N/A' never stands beside a country.
NationalityNonEmpty ==
    Built =>
        LET nationality == playerData.player.nationality
            real == SelectSeq(FlagsOf(givenRow), RealTitle)
        IN  /\ Len(nationality) > 0
            /\ IF real = <<>> THEN nationality = <<NA>>
               ELSE /\ Len(nationality) = Len(real)
                    /\ \A k \in 1..Len(real) : nationality[k] = real[k].title.val
            /\ (\E k \in 1..Len(nationality) : nationality[k] = NA) => nationality = <<NA>>

\* Two flag images, the first with a title that does not count, the second
\* with a country: the nationality is that country alone.
NationalityWitness ==
    /\ Built
    /\ Len(FlagsOf(givenRow)) = 2
    /\ ~RealTitle(FlagsOf(givenRow)[1])
    /\ RealTitle(FlagsOf(givenRow)[2])
    /\ playerData.player.nationality = << FlagsOf(givenRow)[2].title.val >>

\* The signed-from cell of a row is missing or holds nothing.
SignedFromEmpty(r) ==
    \/ Len(r.zentriert) < 7
    \/ /\ Trim(r.zentriert[7].text) = <<>>
       /\ r.zentriert[7].img = <<>>
       /\ r.zentriert[7].a = <<>>

\* C10 as stated: lastClub is null for a row whose signed-from cell is empty
\* and a record only when the cell has content.
LastClubNullIffCellEmpty ==
    Built => (playerData.player.lastClub = Null <=> SignedFromEmpty(givenRow))

\* C10, amended: lastClub is null exactly for a row that has no 7th centered
\* cell; when the cell is there, even empty, lastClub is a record, whose
\* sub-fields are 'N/A' where the cell lacks the image or the link.
LastClubNullIffNoCell ==
    Built =>
        LET lastClub == playerData.player.lastClub
            cell == givenRow.zentriert[7]
        IN  IF Len(givenRow.zentriert) < 7 THEN lastClub = Null
            ELSE /\ lastClub # Null
                 /\ cell.img = <<>> =>
                        /\ lastClub.signed_from_club_name = NA
                        /\ lastClub.signed_from_club_image_url = NA
                 /\ cell.a = <<>> => lastClub.signed_from_club_id = NA

\* A row whose signed-from cell is there and empty gave a record of 'N/A's.
LastClubWitness ==
    /\ Built
    /\ Len(givenRow.zentriert) >= 7
    /\ SignedFromEmpty(givenRow)
    /\ playerData.player.lastClub =
           [signed_from_club_name |-> NA, signed_from_club_id |-> NA,
            signed_from_club_image_url |-> NA]

=============================================================================
